---- MODULE Spec2Model ----
(***************************************************************************)
(* The Whisper inference driver of CTranslate2 (models/whisper.cc) and its *)
(* Python binding (python/cpp/whisper.cc) as a state machine.              *)
(*                                                                         *)
(* Token ids are scaled down to a vocabulary of VocabSize ids that keeps   *)
(* the order of the real vocabulary:                                       *)
(*   text < eot < sot < task tokens < no_timestamps < timestamps.          *)
(* An exception is a value: every operator that can throw returns a record *)
(* [thrown, value], thrown being "none" or the kind of the exception.      *)
(***************************************************************************)
EXTENDS Integers, Sequences, FiniteSets, TLC

(* ------------------------------ bounds -------------------------------- *)

\* Largest number of prompts in a batch.
MaxBatch == 2

\* Largest number of tokens in a batch of prompts (all rows together).
MaxTokens == 4

\* Number of ids of the scaled-down vocabulary (ids 0 .. VocabSize - 1).
VocabSize == 8

\* Largest number of logits rows the beam decoder keeps per batch item.
MaxBeam == 2

(* --------------------------- the vocabulary --------------------------- *)

\* WhisperReplica::_eot_id, the vocabulary's EOS.
eot_id == 1

\* A text token: an id below every special token.
text_id == eot_id - 1

\* WhisperReplica::_sot_id, the vocabulary's BOS.
sot_id == 2

\* WhisperReplica::_no_speech_id; it lies between sot and no_timestamps and
\* also stands for a language or task token in a prompt.
no_speech_id == 3

\* WhisperReplica::_no_timestamps_id.
no_timestamps_id == 4

\* The vocabulary size that makes a model multilingual.
MultilingualVocabSize == 51865

\* Largest probability level of a language (levels 0 .. MaxProbLevel).
MaxProbLevel == 1

\* Largest number of text tokens after the task tokens of a decoded prompt.
MaxSuffix == 1

\* Largest number of tokens the decoder generates for a row.
MaxGenerated == 5

\* Largest max_initial_timestamp_index option.
MaxInitialIndex == 3

\* Largest max_length option of a request whose generation cap is followed.
MaxLength == 4

\* Largest number of entries of the suppress_tokens option.
MaxSuppress == 2

\* Largest num_hypotheses option.
MaxHypotheses == 2

\* Number of replicas of the service, each run by its own worker.
MaxReplicas == 2

\* Largest number of requests posted to the service.
MaxRequests == 3

\* The default of the max_length option.
DefaultMaxLength == 448

VARIABLES
  vocab_size,      \* vocabulary.size() of the replica's model
  prompts,         \* generate: the batch of prompts (token ids)
  options,         \* generate: the WhisperOptions, the decoder's row layout and logits
  gen,             \* generate: the call's locals, its calls and its outcome
  features_batch,  \* detect_language: features.dim(0)
  det,             \* detect_language: its calls, lang_probs and its outcome
  dec,             \* decode: one row of the beam decoder's loop
  svc,             \* Whisper (the service): the request's job and its futures
  py,              \* the Python binding: a read of a result's attention property
  pool             \* the replicas' workers: their requests and decoder states

genVars == <<prompts, options, gen>>

detVars == <<features_batch, det>>

vars == <<vocab_size, genVars, detVars, dec, svc, py, pool>>

(* ----------------------------- exceptions ----------------------------- *)

Return(v) == [thrown |-> "none", value |-> v]

Throw(kind) == [thrown |-> kind, value |-> 0]

\* A read outside a vector: undefined behaviour, kept as a marker value.
OutOfRange == 0 - 1

\* prompt[i] with a 0-based index i, as the C++ operator[] reads it.
At(seq, i) == IF i >= 0 /\ i < Len(seq) THEN seq[i + 1] ELSE OutOfRange

Slice_end_inclusive(seq, first, last) ==
  [k \in 1..(last - first + 1) |-> At(seq, first + k - 1)]

\* The elements first .. last-1 (0-based, end exclusive) of a vector, as the
\* iterator-pair constructor copies them; an element outside the vector is
\* read as OutOfRange.
Slice(seq, first, last) == [k \in 1..(last - first) |-> At(seq, first + k - 1)]

(* --------------------------- prompt analysis -------------------------- *)

\* The positions (0-based) at which std::find can stop.
SotPositions(prompt) == {i \in 0..(Len(prompt) - 1) : prompt[i + 1] = sot_id}

Minimum(S) == CHOOSE x \in S : \A y \in S : x <= y

get_sot_index_no_throw(prompt) ==
  IF SotPositions(prompt) = {}
    THEN Return(Len(prompt))
    ELSE Return(Minimum(SotPositions(prompt)))

get_sot_index(prompt) ==
  IF SotPositions(prompt) = {}
    THEN Throw("invalid_argument")
    ELSE Return(Minimum(SotPositions(prompt)))

\* The while loop of get_prompt_length, from position index on.
RECURSIVE ScanTaskTokens(_, _)
ScanTaskTokens(prompt, index) ==
  IF index < Len(prompt)
     /\ prompt[index + 1] >= sot_id
     /\ prompt[index + 1] <= no_timestamps_id
    THEN ScanTaskTokens(prompt, index + 1)
    ELSE index

get_prompt_length_from_start(prompt) ==
  LET sot == get_sot_index(prompt)
  IN IF sot.thrown # "none"
       THEN sot
       ELSE Return(ScanTaskTokens(prompt, 0))

get_prompt_length_without_scan(prompt) ==
  LET sot == get_sot_index(prompt)
  IN IF sot.thrown # "none"
       THEN sot
       ELSE Return(sot.value)

get_prompt_length(prompt) ==
  LET sot == get_sot_index(prompt)
  IN IF sot.thrown # "none"
       THEN sot
       ELSE Return(ScanTaskTokens(prompt, sot.value))

\* One iteration of the loop of check_prompts on row i (1-based), then the
\* rest of the loop.  acc holds first, sot_index and prompt_length.
RECURSIVE CheckPromptsFrom(_, _, _, _)
CheckPromptsFrom(batch, i, acc, compare_length) ==
  IF i > Len(batch)
    THEN Return(acc)
    ELSE
      LET batch_sot_index == get_sot_index(batch[i])
          batch_prompt_length == get_prompt_length(batch[i])
      IN IF batch_sot_index.thrown # "none" THEN batch_sot_index
         ELSE IF batch_prompt_length.thrown # "none" THEN batch_prompt_length
         ELSE IF acc.first
           THEN CheckPromptsFrom(batch, i + 1,
                                 [first |-> FALSE,
                                  sot_index |-> batch_sot_index.value,
                                  prompt_length |-> batch_prompt_length.value],
                                 compare_length)
         ELSE IF batch_sot_index.value # acc.sot_index
           THEN Throw("invalid_argument")
         ELSE IF compare_length /\ batch_prompt_length.value # acc.prompt_length
           THEN Throw("invalid_argument")
         ELSE CheckPromptsFrom(batch, i + 1, acc, compare_length)

CheckPromptsStart == [first |-> TRUE, sot_index |-> 0, prompt_length |-> 0]

check_prompts_sot_only(batch) == CheckPromptsFrom(batch, 1, CheckPromptsStart, FALSE)

check_prompts(batch) == CheckPromptsFrom(batch, 1, CheckPromptsStart, TRUE)

(* ------------------------- no-speech extraction ------------------------ *)

\* A row of logits is kept by where it comes from: the batch row (0-based)
\* and the position (0-based, in the prompt) of the decoder input token it
\* was computed for.  The probability gathered from it is the same record
\* with the gathered id.
LogitsRow(batch, pos) == [batch |-> batch, pos |-> pos]

ProbOf(row, id) == [batch |-> row.batch, pos |-> row.pos, id |-> id]

\* The value of a float that was never written or that was read outside a
\* vector.
NoProb == [batch |-> OutOfRange, pos |-> OutOfRange, id |-> OutOfRange]

AtOr(seq, i, other) == IF i >= 0 /\ i < Len(seq) THEN seq[i + 1] ELSE other

\* SoftMax, then Gather(axis 1, batch_dims 1) of column no_speech_id: one
\* probability per row of logits.
get_no_speech_probs_from_logits(logits, id) ==
  [r \in 1..Len(logits) |-> ProbOf(logits[r], id)]

GetNoSpeechProbs_row_unscaled(i, beam_size) == i

\* The row of logits GetNoSpeechProbs::apply reads for batch item i.
GetNoSpeechProbs_row(i, beam_size) == i * beam_size

\* GetNoSpeechProbs::apply: stored is _no_speech_probs before the call and
\* the value is _no_speech_probs after it.
GetNoSpeechProbs_apply(step, logits, batch_offset_size, stored) ==
  IF step = 0
    THEN LET no_speech_probs == get_no_speech_probs_from_logits(logits, no_speech_id)
             batch_size == batch_offset_size
             beam_size == Len(logits) \div batch_size
         IN stored \o [i \in 1..batch_size |->
                         AtOr(no_speech_probs,
                              GetNoSpeechProbs_row(i - 1, beam_size), NoProb)]
    ELSE stored

GetNoSpeechProbs_apply_first_unset == FALSE

\* GetNoSpeechProbs::apply_first.
GetNoSpeechProbs_apply_first == TRUE

GetNoSpeechProbs_step_disabling(step, logits, disable_tokens, batch_offset_size, stored) ==
  [stored |-> GetNoSpeechProbs_apply(step, <<logits.row>>, batch_offset_size, stored),
   logits |-> logits,
   disable_tokens |-> disable_tokens \cup {no_speech_id}]

\* GetNoSpeechProbs::apply on everything it is handed for a one-row batch:
\* the logits, kept as the row they are and the mass they hold, are only
\* read and the DisableTokens parameter is not used.
GetNoSpeechProbs_step(step, logits, disable_tokens, batch_offset_size, stored) ==
  [stored |-> GetNoSpeechProbs_apply(step, <<logits.row>>, batch_offset_size, stored),
   logits |-> logits,
   disable_tokens |-> disable_tokens]

\* The order the decoder runs the processors of the request in: those that
\* declare apply_first, in installation order, then the others, in
\* installation order.
RunOrder(processors) ==
  SelectSeq(processors, LAMBDA p : p.apply_first)
  \o SelectSeq(processors, LAMBDA p : ~p.apply_first)

(* ------------------------- the beam decoder --------------------------- *)

\* The logits of decoding step 0: rows_per_item rows for each batch item,
\* batch-major, each computed for the item's first start token, which sits
\* at position start_step of the prompt.
StepZeroLogits(batch_size, rows_per_item, start_step) ==
  [r \in 1..(batch_size * rows_per_item) |->
     LogitsRow((r - 1) \div rows_per_item, start_step)]

\* What the decoder returns for hypothesis h (0-based) of batch row batch:
\* the hypothesis, its score, its per-token scores, its attention matrix.
\* Each is kept by what it belongs to.
HypothesisOf(batch, h) == [batch |-> batch, hypothesis |-> h]

\* One DecodingResult: num_hypotheses hypotheses; scores and token_scores
\* hold one entry per hypothesis when return_scores is set and are empty
\* otherwise, attention likewise with return_attention.
DecodingResult(batch, row_start_tokens, decoding_options) ==
  LET per_hypothesis ==
        [h \in 1..decoding_options.num_hypotheses |-> HypothesisOf(batch, h - 1)]
  IN [batch |-> batch,
      start_tokens |-> row_start_tokens,
      hypotheses |-> per_hypothesis,
      scores |-> IF decoding_options.return_scores THEN per_hypothesis ELSE <<>>,
      token_scores |-> IF decoding_options.return_scores THEN per_hypothesis ELSE <<>>,
      attention |-> IF decoding_options.return_attention THEN per_hypothesis ELSE <<>>]

\* decode(): one DecodingResult per row of start_tokens, in order, and the
\* state the stateful processors are left in.
decode(start_tokens, decoding_options, rows_per_item) ==
  [results |-> [i \in 1..Len(start_tokens) |->
                  DecodingResult(i - 1, start_tokens[i], decoding_options)],
   captured |-> IF \E k \in 1..Len(decoding_options.logits_processors) :
                     decoding_options.logits_processors[k].kind = "GetNoSpeechProbs"
                  THEN GetNoSpeechProbs_apply(
                         0,
                         StepZeroLogits(Len(start_tokens), rows_per_item,
                                        decoding_options.start_step),
                         Len(start_tokens), <<>>)
                  ELSE <<>>]

\* forward_prompt with hidden outputs, then compute_logits_for_steps at the
\* column given for each row: a column outside the prefilled grid is a read
\* outside the tensor.
compute_logits_for_steps(inputs_rows, inputs_cols, column) ==
  [i \in 1..inputs_rows |->
     IF column >= 0 /\ column < inputs_cols
       THEN LogitsRow(i - 1, column)
       ELSE LogitsRow(OutOfRange, OutOfRange)]

(* ------------------------ WhisperReplica::generate --------------------- *)

GenIdle ==
  [status |-> "idle", calls |-> <<>>, sot_index |-> 0, prompt_length |-> 0,
   sot_is_start_token |-> FALSE, prompt_tokens |-> <<>>, start_tokens |-> <<>>,
   start_step |-> 0, processors |-> <<>>, no_speech_probs |-> <<>>,
   decoding_options |-> <<>>, results |-> <<>>, prefill_outputs |-> FALSE]

\* The options of a replica on which no generate call is modelled.
NoOptions ==
  [return_no_speech_prob |-> FALSE, max_initial_timestamp_index |-> 0,
   rows_per_item |-> 1, max_length |-> DefaultMaxLength, suppress_tokens |-> <<>>,
   suppress_blank |-> FALSE, num_hypotheses |-> 1, return_scores |-> TRUE,
   return_attention |-> FALSE, any_logits |-> FALSE]

EmptyReturn_after_encode ==
  [GenIdle EXCEPT !.status = "returned", !.calls = <<"initial_state", "encode">>]

\* generate on an empty list of prompts: "return {}" before anything else.
EmptyReturn == [GenIdle EXCEPT !.status = "returned"]

Rejected_after_encode(kind) ==
  [GenIdle EXCEPT !.status = kind, !.calls = <<"initial_state", "encode">>]

\* generate when check_prompts throws: the exception leaves the function at
\* the call of check_prompts.
Rejected(kind) == [GenIdle EXCEPT !.status = kind]

sot_is_start_token_no_prefill(sot_index, prompt_length) == prompt_length = 1

sot_is_start_token(sot_index, prompt_length) == sot_index = prompt_length - 1

\* std::min on two dim_t values.
Min2(a, b) == IF b < a THEN b ELSE a

\* decoding_options.max_length, computed on signed 64-bit values (dim_t);
\* the division of a non-negative value by 2 truncates.
GenerationCap(total_max_length, start_step) ==
  Min2(total_max_length \div 2, total_max_length - start_step)

\* The model's config["suppress_ids"] and config["suppress_ids_begin"].
suppress_ids == <<sot_id, no_speech_id>>

suppress_ids_begin == <<text_id, eot_id>>

SuppressedBy_positive(id) ==
  IF id > 0 THEN <<id>>
  ELSE IF id = 0 - 1 THEN suppress_ids
  ELSE <<>>

\* What one entry of suppress_tokens pushes to disable_ids.
SuppressedBy(id) ==
  IF id >= 0 THEN <<id>>
  ELSE IF id = 0 - 1 THEN suppress_ids
  ELSE <<>>

\* The loop over options.suppress_tokens, from entry k (1-based) on.
RECURSIVE ExpandSuppressTokens(_, _)
ExpandSuppressTokens(suppress_tokens, k) ==
  IF k > Len(suppress_tokens)
    THEN <<>>
    ELSE SuppressedBy(suppress_tokens[k])
         \o ExpandSuppressTokens(suppress_tokens, k + 1)

\* The parameters ApplyTimestampRules is constructed with.
TimestampRules(opts, size) ==
  [kind |-> "ApplyTimestampRules",
   apply_first |-> FALSE,
   eot_id |-> eot_id,
   no_timestamps_id |-> no_timestamps_id,
   timestamp_begin_id |-> no_timestamps_id + 1,
   timestamp_end_id |-> size - 1,
   max_initial_timestamp_id |-> no_timestamps_id + 1 + opts.max_initial_timestamp_index]

LastTaskToken_of_prompt(batch, prompt_length) == At(batch[1], Len(batch[1]) - 1)

\* prompts[0][prompt_length - 1]: the token of the first prompt that decides
\* on the timestamp rules.
LastTaskToken(batch, prompt_length) == At(batch[1], prompt_length - 1)

\* The logits processors, in the order generate installs them.
InstallProcessors(batch, opts, size, is_start, prompt_length) ==
  (IF opts.return_no_speech_prob /\ is_start
     THEN <<[kind |-> "GetNoSpeechProbs",
             apply_first |-> GetNoSpeechProbs_apply_first]>>
     ELSE <<>>)
  \o
  (IF LastTaskToken(batch, prompt_length) # no_timestamps_id
     THEN <<TimestampRules(opts, size)>> ELSE <<>>)

\* What is read outside an empty token_scores vector.
NoScores == HypothesisOf(OutOfRange, OutOfRange)

\* result.token_scores[0].  The per-token scores a result carries are kept
\* as the list of the hypotheses they belong to.
FirstTokenScores(token_scores) ==
  IF Len(token_scores) > 0 THEN <<token_scores[1]>> ELSE <<NoScores>>

\* The loop that builds the final results from the decoding results.
AssembleResults(results, opts, no_speech_probs) ==
  [i \in 1..Len(results) |->
     [decoded |-> results[i],
      sequences_ids |-> results[i].hypotheses,
      scores |-> results[i].scores,
      token_scores |-> FirstTokenScores(results[i].token_scores),
      attention |-> results[i].attention,
      no_speech_prob |-> IF opts.return_no_speech_prob
                           THEN AtOr(no_speech_probs, i - 1, NoProb)
                           ELSE NoProb]]

NeedsPrefillOutputs_whenever(opts, is_start) == ~is_start

\* The else branch of "if (!options.return_no_speech_prob ||
\* sot_is_start_token)": forward_prompt is asked for its hidden outputs and
\* the logits at sot_index are computed from them.
NeedsPrefillOutputs(opts, is_start) == ~(~opts.return_no_speech_prob \/ is_start)

\* generate, after check_prompts accepted the batch.
GenerateAccepted(batch, opts, size, sot_index, prompt_length) ==
  LET is_start == sot_is_start_token(sot_index, prompt_length)
      prefill == prompt_length # 1
      prompt_tokens ==
        IF prefill
          THEN [i \in 1..Len(batch) |-> Slice(batch[i], 0, prompt_length - 1)]
          ELSE <<>>
      start_tokens ==
        IF prefill
          THEN [i \in 1..Len(batch) |->
                  Slice(batch[i], prompt_length - 1, Len(batch[i]))]
          ELSE batch
      eager == prefill /\ NeedsPrefillOutputs(opts, is_start)
      \* inputs.dim(1): every row of prompt_tokens has prompt_length - 1 tokens
      start_step == IF prefill THEN prompt_length - 1 ELSE 0
      eager_probs ==
        IF eager
          THEN get_no_speech_probs_from_logits(
                 compute_logits_for_steps(Len(batch), prompt_length - 1, sot_index),
                 no_speech_id)
          ELSE <<>>
      processors == InstallProcessors(batch, opts, size, is_start, prompt_length)
      decoding_options ==
        [start_step |-> start_step,
         max_length |-> GenerationCap(opts.max_length, start_step),
         num_hypotheses |-> opts.num_hypotheses,
         return_scores |-> opts.return_scores,
         return_attention |-> opts.return_attention,
         disable_ids |-> ExpandSuppressTokens(opts.suppress_tokens, 1),
         disable_ids_begin |-> IF opts.suppress_blank THEN suppress_ids_begin ELSE <<>>,
         logits_processors |-> processors]
      decoded == decode(start_tokens, decoding_options, opts.rows_per_item)
      no_speech_probs ==
        IF \E k \in 1..Len(processors) : processors[k].kind = "GetNoSpeechProbs"
          THEN decoded.captured
          ELSE eager_probs
  IN [status |-> "returned",
      calls |-> <<"initial_state", "encode", "update_output_layer">>
                \o (IF prefill THEN <<"forward_prompt">> ELSE <<>>)
                \o (IF eager THEN <<"compute_logits_for_steps">> ELSE <<>>)
                \o <<"decode">>,
      sot_index |-> sot_index,
      prompt_length |-> prompt_length,
      sot_is_start_token |-> is_start,
      prompt_tokens |-> prompt_tokens,
      start_tokens |-> start_tokens,
      start_step |-> start_step,
      processors |-> processors,
      no_speech_probs |-> no_speech_probs,
      decoding_options |-> decoding_options,
      results |-> AssembleResults(decoded.results, opts, no_speech_probs),
      prefill_outputs |-> eager]

\* WhisperReplica::generate on token ids: the value of gen when it returns
\* or throws, a read outside a vector kept as the marker it yields.
generate(batch, opts, size) ==
  IF batch = <<>>
    THEN EmptyReturn
    ELSE LET checked == check_prompts(batch)
         IN IF checked.thrown # "none"
              THEN Rejected(checked.thrown)
              ELSE GenerateAccepted(batch, opts, size,
                                    checked.value.sot_index,
                                    checked.value.prompt_length)

\* The read of token_scores[0] outside the vector is undefined: the result
\* is built from whatever is read, or the process dies on the read.
GenerateOutcomes(batch, opts, size) ==
  LET g == generate(batch, opts, size)
  IN IF \E i \in 1..Len(g.results) : g.results[i].token_scores = <<NoScores>>
       THEN {g, [GenIdle EXCEPT !.status = "crashed", !.calls = g.calls]}
       ELSE {g}

\* The service before a request is submitted.
SvcIdle == [phase |-> "idle", futures |-> <<>>]

\* The decoder's row before decode is called.
DecIdle ==
  [phase |-> "idle", installed |-> FALSE, rules |-> <<>>, prefix |-> <<>>,
   sample_begin |-> 0, step |-> 0, sequences |-> <<>>, disabled |-> {},
   checked |-> FALSE, sample_timestamp |-> FALSE,
   max_length |-> 0, disable_ids |-> {}, disable_ids_begin |-> {},
   processors |-> <<>>, start_step |-> 0, capturing |-> FALSE,
   no_speech_probs |-> <<>>, logits |-> <<>>, observed |-> <<>>,
   log_probs |-> <<>>]

\* A worker without a request.
NoRequest == [id |-> 0, kind |-> "none", valid |-> FALSE]

\* The service before a request is posted: pc is where a worker stands in
\* its request, state the DecoderState its request holds (0 for none),
\* left the one the request before dropped; states lists every
\* DecoderState built, by who built it, whether it is alive and who read
\* or wrote it.
PoolIdle ==
  [posted |-> 0,
   queue |-> <<>>,
   replicas |-> [r \in 1..MaxReplicas |->
                   [request |-> NoRequest, pc |-> "idle", state |-> 0, left |-> 0]],
   states |-> <<>>]

\* The binding before a property of a result is read.
PyIdle == [state |-> "idle", result |-> 0, of |-> <<>>]

(* -------------------- WhisperReplica::detect_language ------------------ *)

\* The model's config["lang_ids"].
lang_ids == <<no_speech_id, sot_id + 3, sot_id + 2>>

\* vocabulary.to_token: the token string of an id.
to_token(id) == <<"token", id>>

is_multilingual_at_least(size) == size >= MultilingualVocabSize

\* WhisperReplica::_is_multilingual, as the constructor sets it.
is_multilingual(size) == size = MultilingualVocabSize

DetIdle == [status |-> "idle", calls |-> <<>>, lang_probs |-> <<>>, results |-> <<>>]

\* The probabilities of a row are kept as levels: SoftMax is increasing in
\* each gathered logit, so a level stands for the probability it maps to.
ProbLevels == 0..MaxProbLevel

\* The pairs of one row, in the order of lang_ids, before the sort.
LanguagePairs(row_probs) ==
  [j \in 1..Len(lang_ids) |-> <<to_token(lang_ids[j]), row_probs[j]>>]

SortedAscending(pairs) ==
  {[k \in 1..Len(pairs) |-> pairs[perm[k]]] :
     perm \in {q \in Permutations(1..Len(pairs)) :
                 \A a, b \in 1..Len(pairs) :
                   a < b => ~(pairs[q[b]][2] < pairs[q[a]][2])}}

\* std::sort with the comparator a.second > b.second: every order of the
\* pairs in which no later pair compares before an earlier one (the sort is
\* not stable).
SortedDescending(pairs) ==
  {[k \in 1..Len(pairs) |-> pairs[perm[k]]] :
     perm \in {q \in Permutations(1..Len(pairs)) :
                 \A a, b \in 1..Len(pairs) :
                   a < b => ~(pairs[q[b]][2] > pairs[q[a]][2])}}

\* The loop over the batch rows from row i (1-based) on: the results
\* detect_language can return for the probabilities lang_probs (one row per
\* batch item, one level per entry of lang_ids).
RECURSIVE DetectResultsFrom(_, _)
DetectResultsFrom(lang_probs, i) ==
  IF i > Len(lang_probs)
    THEN {<<>>}
    ELSE {<<result>> \o rest :
            result \in SortedDescending(LanguagePairs(lang_probs[i])),
            rest \in DetectResultsFrom(lang_probs, i + 1)}

DetectResults(lang_probs) == DetectResultsFrom(lang_probs, 1)

\* detect_language on a model that is not multilingual.
DetectLanguageRefused ==
  /\ det.status = "idle"
  /\ ~is_multilingual(vocab_size)
  /\ det' = [det EXCEPT !.status = "runtime_error"]
  /\ UNCHANGED <<vocab_size, genVars, features_batch, dec, svc, py, pool>>

\* detect_language on a multilingual model: the decoder's single step gives
\* the logits, of which the columns lang_ids are gathered and normalised.
DetectLanguageRun ==
  /\ det.status = "idle"
  /\ is_multilingual(vocab_size)
  /\ \E lang_probs \in [1..features_batch -> [1..Len(lang_ids) -> ProbLevels]] :
       \E results \in DetectResults(lang_probs) :
         det' = [status |-> "returned",
                 calls |-> <<"initial_state", "encode", "decoder">>,
                 lang_probs |-> lang_probs,
                 results |-> results]
  /\ UNCHANGED <<vocab_size, genVars, features_batch, dec, svc, py, pool>>

VocabSizes ==
  {VocabSize, MultilingualVocabSize - 1, MultilingualVocabSize,
   MultilingualVocabSize + 1}

InitDetect ==
  /\ vocab_size \in VocabSizes
  /\ features_batch \in 0..MaxBatch
  /\ det = DetIdle
  /\ prompts = <<>>
  /\ options = NoOptions
  /\ gen = GenIdle
  /\ dec = DecIdle
  /\ svc = SvcIdle
  /\ py = PyIdle
  /\ pool = PoolIdle

NextDetect == DetectLanguageRefused \/ DetectLanguageRun

SpecDetect == InitDetect /\ [][NextDetect]_vars

(* ------------------------- ApplyTimestampRules ------------------------- *)

\* The ids i with from <= i <= to, as the for loops of apply visit them.
IdRange(from, to) == {i \in from..to : TRUE}

FirstStepDisabled_unbounded(rules) ==
  IdRange(0, rules.timestamp_begin_id - 1)

\* step == sample_begin: the non-timestamps and the timestamps above
\* max_initial_timestamp_id.
FirstStepDisabled(rules) ==
  IdRange(0, rules.timestamp_begin_id - 1)
  \cup IdRange(rules.max_initial_timestamp_id + 1, rules.timestamp_end_id)

penultimate_token_unguarded(step, sample_begin, sequences, last_token) ==
  At(sequences, step - 2)

\* The token before the last one, or the last one when it is the first
\* generated token.
penultimate_token(step, sample_begin, sequences, last_token) ==
  IF step - 1 > sample_begin THEN At(sequences, step - 2) ELSE last_token

PairRule_open_unmasked(rules, step, sample_begin, sequences) ==
  LET last_token == At(sequences, step - 1)
  IN IF last_token >= rules.timestamp_begin_id
       THEN IF penultimate_token(step, sample_begin, sequences, last_token)
                 >= rules.timestamp_begin_id
              THEN [disabled |-> IdRange(rules.timestamp_begin_id, rules.timestamp_end_id),
                    check |-> FALSE]
              ELSE [disabled |-> {}, check |-> TRUE]
       ELSE [disabled |-> {}, check |-> TRUE]

PairRule_closed_blocks_all(rules, step, sample_begin, sequences) ==
  LET last_token == At(sequences, step - 1)
  IN IF last_token >= rules.timestamp_begin_id
       THEN IF penultimate_token(step, sample_begin, sequences, last_token)
                 >= rules.timestamp_begin_id
              THEN [disabled |-> IdRange(0, rules.timestamp_end_id), check |-> FALSE]
              ELSE [disabled |-> IdRange(0, rules.eot_id - 1), check |-> TRUE]
       ELSE [disabled |-> {}, check |-> TRUE]

\* "Timestamps have to appear in pairs": the ids disabled after last_token,
\* and whether the row is pushed to check_timestamps_prob_for_batch.
PairRule(rules, step, sample_begin, sequences) ==
  LET last_token == At(sequences, step - 1)
  IN IF last_token >= rules.timestamp_begin_id
       THEN IF penultimate_token(step, sample_begin, sequences, last_token)
                 >= rules.timestamp_begin_id
              THEN [disabled |-> IdRange(rules.timestamp_begin_id, rules.timestamp_end_id),
                    check |-> FALSE]
              ELSE [disabled |-> IdRange(0, rules.eot_id - 1), check |-> TRUE]
       ELSE [disabled |-> {}, check |-> TRUE]

NotDecreasing_off(rules, sequences, t, sample_begin) == {}

\* "Timestamps shouldn't decrease": the scan from position t down to
\* sample_begin for the last timestamp.
RECURSIVE NotDecreasing(_, _, _, _)
NotDecreasing(rules, sequences, t, sample_begin) ==
  IF t < sample_begin
    THEN {}
    ELSE IF At(sequences, t) >= rules.timestamp_begin_id
      THEN IdRange(rules.timestamp_begin_id, At(sequences, t) - 1)
      ELSE NotDecreasing(rules, sequences, t - 1, sample_begin)

AlwaysDisabled_none(rules) == {}

\* disable_tokens.add(batch_id, _no_timestamps_id): the first statement of
\* the loop body, for every row at every step.
AlwaysDisabled(rules) == {rules.no_timestamps_id}

\* The body of the loop over the batch rows of ApplyTimestampRules::apply,
\* for one row.
ApplyTimestampRules_row(rules, step, sample_begin, sequences) ==
  IF step = sample_begin
    THEN [disabled |-> AlwaysDisabled(rules) \cup FirstStepDisabled(rules),
          check |-> FALSE]
    ELSE IF step > sample_begin
      THEN LET pair == PairRule(rules, step, sample_begin, sequences)
           IN [disabled |-> AlwaysDisabled(rules) \cup pair.disabled
                            \cup NotDecreasing(rules, sequences, step - 1, sample_begin),
               check |-> pair.check]
      ELSE [disabled |-> AlwaysDisabled(rules), check |-> FALSE]

\* A row of logits in the decode loop is kept as the probability mass of
\* each id, in units: SoftMax and LogSoftMax are increasing in the logit and
\* divide every id of the row by the same sum, so sums and maxima of masses
\* compare as the sums and maxima the code takes of log-probabilities.
\* The mass of the ids first..last of a row, summed.
RECURSIVE MassSum(_, _, _)
MassSum(log_probs, first, last) ==
  IF first > last THEN 0
  ELSE log_probs[first] + MassSum(log_probs, first + 1, last)

\* The largest mass among the ids first..last of a row.
RECURSIVE MassMax(_, _, _)
MassMax(log_probs, first, last) ==
  IF first > last THEN 0
  ELSE LET rest == MassMax(log_probs, first + 1, last)
       IN IF log_probs[first] > rest THEN log_probs[first] ELSE rest

\* disable_tokens.apply() and the LogSoftMax that follows it: the ids
\* disabled so far in the step are written into the logits and carry no
\* mass.
DisableTokens_apply(logits, disable_tokens) ==
  [id \in DOMAIN logits |-> IF id \in disable_tokens THEN 0 ELSE logits[id]]

should_sample_timestamp_largest(rules, log_probs) ==
  MassMax(log_probs, rules.timestamp_begin_id, rules.timestamp_end_id)
    > MassMax(log_probs, 0, rules.timestamp_begin_id - 1)

\* should_sample_timestamp on the row of log-probabilities: logsumexp over
\* the timestamp ids against the maximum over the ids below
\* timestamp_begin_id.
should_sample_timestamp(rules, log_probs) ==
  MassSum(log_probs, rules.timestamp_begin_id, rules.timestamp_end_id)
    > MassMax(log_probs, 0, rules.timestamp_begin_id - 1)

\* ApplyTimestampRules::apply for one row.  logits and disable_tokens are
\* the row's logits and the ids added to DisableTokens before the call;
\* disabled is what the call adds, log_probs the row should_sample_timestamp
\* read (empty when the row is not checked), logits the logits when it
\* returns.
ApplyTimestampRules_apply(rules, step, sample_begin, sequences, logits, disable_tokens) ==
  LET row == ApplyTimestampRules_row(rules, step, sample_begin, sequences)
      applied == DisableTokens_apply(logits, disable_tokens \cup row.disabled)
      sample_timestamp == row.check /\ should_sample_timestamp(rules, applied)
  IN [disabled |-> IF sample_timestamp
                     THEN row.disabled \cup IdRange(0, rules.timestamp_begin_id - 1)
                     ELSE row.disabled,
      check |-> row.check,
      log_probs |-> IF row.check THEN applied ELSE <<>>,
      sample_timestamp |-> sample_timestamp,
      logits |-> IF row.check THEN applied ELSE logits]

(* --------------------------- the decode loop --------------------------- *)

\* get_sample_begin: the index at which the generated output of a row
\* starts, the number of start tokens the decoder is forced to follow.
get_sample_begin(prefix) == Len(prefix)

\* The decoder's state for the row of a one-row batch when generate calls
\* decode: the tokens after the first start token are the forced prefix.
\* logits and log_probs are the logits of the last step as the decoder
\* computed them (kept when GetNoSpeechProbs is installed) and as
\* should_sample_timestamp read them; observed is what GetNoSpeechProbs was
\* handed and what it handed on.
DecodeEntry(g) ==
  [phase |-> "running",
   installed |-> \E k \in 1..Len(g.processors) :
                   g.processors[k].kind = "ApplyTimestampRules",
   rules |-> IF \E k \in 1..Len(g.processors) :
                  g.processors[k].kind = "ApplyTimestampRules"
               THEN g.processors[Len(g.processors)]
               ELSE <<>>,
   prefix |-> Tail(g.start_tokens[1]),
   sample_begin |-> get_sample_begin(Tail(g.start_tokens[1])),
   step |-> 0, sequences |-> <<>>, disabled |-> {},
   checked |-> FALSE, sample_timestamp |-> FALSE,
   max_length |-> g.decoding_options.max_length,
   disable_ids |-> {g.decoding_options.disable_ids[k] :
                      k \in 1..Len(g.decoding_options.disable_ids)},
   disable_ids_begin |-> {g.decoding_options.disable_ids_begin[k] :
                            k \in 1..Len(g.decoding_options.disable_ids_begin)},
   processors |-> RunOrder(g.decoding_options.logits_processors),
   start_step |-> g.decoding_options.start_step,
   capturing |-> \E k \in 1..Len(g.processors) :
                   g.processors[k].kind = "GetNoSpeechProbs",
   no_speech_probs |-> <<>>, logits |-> <<>>, observed |-> <<>>,
   log_probs |-> <<>>]

\* The decoder stops a row at max_length tokens.  A negative max_length is
\* outside what the decoder is specified for: it may stop or go on.
WithinCap(d) == d.max_length < 0 \/ d.step < d.max_length

\* The logits the decoder computes for a row: all the mass on the
\* timestamp ids, all the mass on the other ids, or any split of it.
TimestampHeavy(size) ==
  [id \in IdRange(0, size - 1) |-> IF id > no_timestamps_id THEN 1 ELSE 0]

TextHeavy(size) ==
  [id \in IdRange(0, size - 1) |-> IF id > no_timestamps_id THEN 0 ELSE 1]

StepLogits(opts, size) ==
  IF opts.any_logits
    THEN [IdRange(0, size - 1) -> {0, 1}]
    ELSE {TimestampHeavy(size), TextHeavy(size)}

\* What the processors of a step have done so far: the logits and the
\* DisableTokens accumulator they hand on, the vector GetNoSpeechProbs
\* keeps, the logits it was handed and what ApplyTimestampRules did.
StepStart(d, logits) ==
  [logits |-> logits,
   disable_tokens |-> d.disable_ids
                      \cup IF d.step = d.sample_begin
                             THEN d.disable_ids_begin ELSE {},
   stored |-> d.no_speech_probs,
   observed |-> <<>>,
   rules |-> [disabled |-> {}, check |-> FALSE, log_probs |-> <<>>,
              sample_timestamp |-> FALSE, logits |-> logits]]

\* One processor of the request applied at a step.
ApplyProcessor(p, d, acc) ==
  IF p.kind = "GetNoSpeechProbs"
    THEN LET r == GetNoSpeechProbs_step(
                    d.step, [row |-> LogitsRow(0, d.start_step + d.step),
                             mass |-> acc.logits],
                    acc.disable_tokens, 1, acc.stored)
         IN [acc EXCEPT !.stored = r.stored,
                        !.observed = <<[logits |-> acc.logits,
                                        disable_tokens |-> acc.disable_tokens,
                                        logits_after |-> r.logits.mass,
                                        disable_tokens_after |-> r.disable_tokens]>>,
                        !.logits = r.logits.mass,
                        !.disable_tokens = r.disable_tokens]
    ELSE LET r == ApplyTimestampRules_apply(p, d.step, d.sample_begin,
                    d.sequences, acc.logits, acc.disable_tokens)
         IN [acc EXCEPT !.logits = r.logits,
                        !.disable_tokens = acc.disable_tokens \cup r.disabled,
                        !.rules = r]

\* The loop of the decoder over the processors of the request, after the
\* ids the request suppresses were added to DisableTokens.
RECURSIVE RunProcessors(_, _, _)
RunProcessors(processors, d, acc) ==
  IF processors = <<>>
    THEN acc
    ELSE RunProcessors(Tail(processors), d, ApplyProcessor(Head(processors), d, acc))

\* The row after a step on logits that added token.
AfterStep(d, logits, out, token) ==
  [d EXCEPT
     !.disabled = out.rules.disabled,
     !.checked = out.rules.check,
     !.sample_timestamp = out.rules.sample_timestamp,
     !.log_probs = out.rules.log_probs,
     !.no_speech_probs = out.stored,
     !.observed = out.observed,
     !.logits = IF d.capturing THEN logits ELSE <<>>,
     !.sequences = Append(d.sequences, token),
     !.step = d.step + 1]

\* generate reaches decode for an accepted batch.
DecodeBegin ==
  /\ dec.phase = "idle"
  /\ gen.status = "idle"
  /\ generate(prompts, options, vocab_size).status = "returned"
  /\ prompts # <<>>
  /\ gen' = generate(prompts, options, vocab_size)
  /\ dec' = DecodeEntry(generate(prompts, options, vocab_size))
  /\ UNCHANGED <<vocab_size, prompts, options, detVars, svc, py, pool>>

\* One step inside the forced prefix: the processors run, the decoder
\* follows the prefix.
DecodeForced ==
  /\ dec.phase = "running"
  /\ dec.step < dec.sample_begin
  /\ WithinCap(dec)
  /\ \E logits \in StepLogits(options, vocab_size) :
       dec' = AfterStep(dec, logits,
                        RunProcessors(dec.processors, dec, StepStart(dec, logits)),
                        dec.prefix[dec.step + 1])
  /\ UNCHANGED <<vocab_size, genVars, detVars, svc, py, pool>>

\* One generating step: the processors run, the decoder picks an id that
\* is not disabled; eot ends the row.
DecodeSample ==
  /\ dec.phase = "running"
  /\ dec.step >= dec.sample_begin
  /\ dec.step < dec.sample_begin + MaxGenerated
  /\ WithinCap(dec)
  /\ \E logits \in StepLogits(options, vocab_size) :
       LET out == RunProcessors(dec.processors, dec, StepStart(dec, logits))
       IN \E token \in IdRange(0, vocab_size - 1) \ out.disable_tokens :
            dec' = [AfterStep(dec, logits, out, token) EXCEPT
                      !.phase = IF token = eot_id THEN "finished" ELSE "running"]
  /\ UNCHANGED <<vocab_size, genVars, detVars, svc, py, pool>>

(* ------------------------- Whisper, the service ------------------------ *)

\* A future: pending, holding a value, holding an exception, or set from a
\* read outside the results vector.
PendingFuture == [state |-> "pending", result |-> <<>>, error |-> "none"]

ValueFuture(result) == [state |-> "value", result |-> <<result>>, error |-> "none"]

ErrorFuture(kind) == [state |-> "error", result |-> <<>>, error |-> kind]

UndefinedFuture == [state |-> "undefined", result |-> <<>>, error |-> "none"]

\* Whisper::generate: batch_size is features.dim(0); post_batch returns
\* batch_size futures and queues the job.
Submit ==
  /\ svc.phase = "idle"
  /\ svc' = [phase |-> "queued",
             futures |-> [i \in 1..features_batch |-> PendingFuture]]
  /\ UNCHANGED <<vocab_size, genVars, detVars, dec, py, pool>>

\* What replica.generate(features, prompts, options) can end with inside
\* the job: the outcome of generate, or, when the prompts and the features
\* disagree on the batch size, a failure of the decoder.
ReplicaOutcomes ==
  {generate(prompts, options, vocab_size)}
  \cup IF /\ generate(prompts, options, vocab_size).status = "returned"
          /\ prompts # <<>>
          /\ Len(prompts) # features_batch
         THEN {[GenIdle EXCEPT !.status = "propagated"]}
         ELSE {}

\* The job's fan-out: every promise gets the exception, or promise i gets
\* results[i].  Reading results[i] outside the vector is undefined: the
\* promise is set from whatever is read, or the worker dies on the read.
FanOut(futures, outcome) ==
  IF outcome.status # "returned"
    THEN {[phase |-> "finished",
           futures |-> [i \in 1..Len(futures) |-> ErrorFuture(outcome.status)]]}
    ELSE IF Len(outcome.results) >= Len(futures)
      THEN {[phase |-> "finished",
             futures |-> [i \in 1..Len(futures) |-> ValueFuture(outcome.results[i])]]}
      ELSE {[phase |-> "finished",
             futures |-> [i \in 1..Len(futures) |->
                            IF i <= Len(outcome.results)
                              THEN ValueFuture(outcome.results[i])
                              ELSE UndefinedFuture]],
            [phase |-> "crashed",
             futures |-> [i \in 1..Len(futures) |->
                            IF i <= Len(outcome.results)
                              THEN ValueFuture(outcome.results[i])
                              ELSE PendingFuture]]}

\* A worker takes the job, runs it on its replica and completes the
\* promises.
RunJob ==
  /\ svc.phase = "queued"
  /\ \E outcome \in ReplicaOutcomes :
       /\ gen' = outcome
       /\ svc' \in FanOut(svc.futures, outcome)
  /\ UNCHANGED <<vocab_size, prompts, options, detVars, dec, py, pool>>

(* ------------------------------ inputs -------------------------------- *)

\* The ids a prompt of a batch is made of: a text token, sot, a task token
\* and no_timestamps.
PromptIds == {text_id, sot_id, no_speech_id, no_timestamps_id}

PromptsUpTo(n) == UNION {[1..k -> PromptIds] : k \in 0..n}

\* The batches of exactly rows prompts that hold at most tokens tokens.
RECURSIVE BatchesOf(_, _)
BatchesOf(rows, tokens) ==
  IF rows = 0
    THEN {<<>>}
    ELSE UNION {{<<p>> \o rest : rest \in BatchesOf(rows - 1, tokens - Len(p))}
                : p \in PromptsUpTo(tokens)}

Batches == UNION {BatchesOf(rows, MaxTokens) : rows \in 0..MaxBatch}

\* The options a request leaves at one value: the default max_length, no
\* suppressed ids, one hypothesis with its scores.
FixedOptions ==
  [max_length |-> DefaultMaxLength, suppress_tokens |-> <<>>,
   suppress_blank |-> FALSE, num_hypotheses |-> 1, return_scores |-> TRUE,
   return_attention |-> FALSE, any_logits |-> FALSE]

\* The record of WhisperOptions made of the fields of two records.
WithOptions(a, b) ==
  [f \in DOMAIN a \cup DOMAIN b |-> IF f \in DOMAIN b THEN b[f] ELSE a[f]]

GenOptions ==
  {WithOptions(FixedOptions, o) :
     o \in [return_no_speech_prob : BOOLEAN,
            max_initial_timestamp_index : {1},
            rows_per_item : 1..MaxBeam]}

\* The options of a decoded request: max_initial_timestamp_index varies.
RulesOptions ==
  {WithOptions(FixedOptions, o) :
     o \in [return_no_speech_prob : {FALSE},
            max_initial_timestamp_index : 0..MaxInitialIndex,
            rows_per_item : {1}]}

(* ------------------------ the decoded request -------------------------- *)

\* The prompts of the decoded rows: sot, a task token or none, then text
\* (a text token or a timestamp of an earlier segment).
SuffixIds == {text_id, no_timestamps_id + 2}

DecodedPrompts ==
  {<<sot_id>> \o task \o suffix :
     task \in {<<>>, <<no_speech_id>>},
     suffix \in UNION {[1..k -> SuffixIds] : k \in 0..MaxSuffix}}

InitRules ==
  /\ vocab_size = VocabSize
  /\ prompts \in {<<p>> : p \in DecodedPrompts}
  /\ options \in RulesOptions
  /\ gen = GenIdle
  /\ features_batch = 0
  /\ det = DetIdle
  /\ dec = DecIdle
  /\ svc = SvcIdle
  /\ py = PyIdle
  /\ pool = PoolIdle

NextRules == DecodeBegin \/ DecodeForced \/ DecodeSample

SpecRules == InitRules /\ [][NextRules]_vars

(* ------------------- the request with a generation cap ----------------- *)

\* The prompts of the capped rows: one, two or three task tokens from sot
\* on, then a text token or none.
CapPrompts ==
  {task \o suffix :
     task \in {<<sot_id>>, <<sot_id, no_speech_id>>,
               <<sot_id, no_speech_id, no_timestamps_id>>},
     suffix \in {<<>>, <<text_id>>}}

\* The options of a capped request: max_length varies.
CapOptions ==
  {WithOptions(FixedOptions, o) :
     o \in [return_no_speech_prob : {FALSE},
            max_initial_timestamp_index : {1},
            rows_per_item : {1},
            max_length : 0..MaxLength]}

InitCap ==
  /\ vocab_size = VocabSize
  /\ prompts \in {<<p>> : p \in CapPrompts}
  /\ options \in CapOptions
  /\ gen = GenIdle
  /\ features_batch = 0
  /\ det = DetIdle
  /\ dec = DecIdle
  /\ svc = SvcIdle
  /\ py = PyIdle
  /\ pool = PoolIdle

NextCap == DecodeBegin \/ DecodeForced \/ DecodeSample

SpecCap == InitCap /\ [][NextCap]_vars

(* ------------------- the request with suppressed ids ------------------- *)

\* The entries of suppress_tokens: a negative id that is not the sentinel,
\* the sentinel, id 0 and a timestamp id.
SuppressEntries == {0 - 2, 0 - 1, text_id, no_timestamps_id + 1}

SuppressPrompts ==
  {<<sot_id>>, <<sot_id, no_timestamps_id>>, <<sot_id, no_timestamps_id, text_id>>}

\* The options of a request with suppressed ids: suppress_tokens varies,
\* max_length is MaxLength.
SuppressOptions ==
  {WithOptions(FixedOptions, o) :
     o \in [return_no_speech_prob : {FALSE},
            max_initial_timestamp_index : {1},
            rows_per_item : {1},
            max_length : {MaxLength},
            suppress_tokens : UNION {[1..k -> SuppressEntries] : k \in 0..MaxSuppress}]}

InitSuppress ==
  /\ vocab_size = VocabSize
  /\ prompts \in {<<p>> : p \in SuppressPrompts}
  /\ options \in SuppressOptions
  /\ gen = GenIdle
  /\ features_batch = 0
  /\ det = DetIdle
  /\ dec = DecIdle
  /\ svc = SvcIdle
  /\ py = PyIdle
  /\ pool = PoolIdle

NextSuppress == DecodeBegin \/ DecodeForced \/ DecodeSample

SpecSuppress == InitSuppress /\ [][NextSuppress]_vars

(* ------------------------ the service request -------------------------- *)

\* The prompts of a request to the service: with sot, with sot and text,
\* without sot.
ServicePrompts == {<<sot_id>>, <<sot_id, text_id>>, <<text_id>>}

ServiceBatches == UNION {[1..k -> ServicePrompts] : k \in 0..MaxBatch}

InitService ==
  /\ vocab_size = VocabSize
  /\ prompts \in ServiceBatches
  /\ options \in {o \in GenOptions : o.rows_per_item = 1}
  /\ gen = GenIdle
  /\ features_batch \in 0..MaxBatch
  /\ det = DetIdle
  /\ dec = DecIdle
  /\ svc = SvcIdle
  /\ py = PyIdle
  /\ pool = PoolIdle

NextService == Submit \/ RunJob

SpecService == InitService /\ [][NextService]_vars

(* ------------------------- the generate request ------------------------ *)

Init ==
  /\ vocab_size = VocabSize
  /\ prompts \in Batches
  /\ options \in GenOptions
  /\ gen = GenIdle
  /\ features_batch = 0
  /\ det = DetIdle
  /\ dec = DecIdle
  /\ svc = SvcIdle
  /\ py = PyIdle
  /\ pool = PoolIdle

\* A call of WhisperReplica::generate(features, prompts, options).
Generate ==
  /\ gen.status = "idle"
  /\ gen' \in GenerateOutcomes(prompts, options, vocab_size)
  /\ UNCHANGED <<vocab_size, prompts, options, detVars, dec, svc, py, pool>>

Next == Generate

Spec == Init /\ [][Next]_vars

(* ----------------------- the analysed prompt --------------------------- *)

\* The ids of an analysed prompt: a text token, sot, a task token,
\* no_timestamps and a timestamp, which lies above no_timestamps.
AnalysedIds == PromptIds \cup {no_timestamps_id + 1}

InitPrompt ==
  /\ vocab_size = VocabSize
  /\ prompts \in {<<p>> : p \in UNION {[1..k -> AnalysedIds] : k \in 0..MaxTokens}}
  /\ options = WithOptions(NoOptions, [max_initial_timestamp_index |-> 1])
  /\ gen = GenIdle
  /\ features_batch = 0
  /\ det = DetIdle
  /\ dec = DecIdle
  /\ svc = SvcIdle
  /\ py = PyIdle
  /\ pool = PoolIdle

NextPrompt == Generate

SpecPrompt == InitPrompt /\ [][NextPrompt]_vars

(* ------------------- the request and its results ----------------------- *)

\* What is read outside an empty attention vector.
NoAttention == HypothesisOf(OutOfRange, OutOfRange)

\* The attention property of a result: the matrix result.attention[0],
\* flattened and reshaped.  The read of attention[0] outside the vector is
\* undefined: an array is built from whatever is read, or the process dies.
AttentionProperty(i, attention) ==
  IF Len(attention) > 0
    THEN {[state |-> "value", result |-> i, of |-> <<attention[1]>>]}
    ELSE {[state |-> "undefined", result |-> i, of |-> <<NoAttention>>],
          [state |-> "crashed", result |-> i, of |-> <<>>]}

\* Python reads the attention property of result i of a returned request.
ReadAttention ==
  /\ gen.status = "returned"
  /\ py.state = "idle"
  /\ \E i \in 1..Len(gen.results) :
       py' \in AttentionProperty(i, gen.results[i].attention)
  /\ UNCHANGED <<vocab_size, genVars, detVars, dec, svc, pool>>

AssemblyBatches == UNION {BatchesOf(rows, MaxBatch) : rows \in 0..MaxBatch}

\* The options of a request whose results are read: the enrichments and
\* the number of hypotheses vary.
AssemblyOptions ==
  {WithOptions(FixedOptions, o) :
     o \in [return_no_speech_prob : BOOLEAN,
            max_initial_timestamp_index : {1},
            rows_per_item : {1},
            num_hypotheses : 1..MaxHypotheses,
            return_scores : BOOLEAN,
            return_attention : BOOLEAN]}

InitAssembly ==
  /\ vocab_size = VocabSize
  /\ prompts \in AssemblyBatches
  /\ options \in AssemblyOptions
  /\ gen = GenIdle
  /\ features_batch = 0
  /\ det = DetIdle
  /\ dec = DecIdle
  /\ svc = SvcIdle
  /\ py = PyIdle
  /\ pool = PoolIdle

NextAssembly == Generate \/ ReadAttention

SpecAssembly == InitAssembly /\ [][NextAssembly]_vars

(* ------------------ the decoded request on any logits ----------------- *)

\* The options of a request decoded on any split of the mass: max_length 8
\* leaves four steps.
MassOptions ==
  {WithOptions(FixedOptions, o) :
     o \in [return_no_speech_prob : {FALSE},
            max_initial_timestamp_index : {1},
            rows_per_item : {1},
            max_length : {8},
            any_logits : {TRUE}]}

\* The vocabulary has two timestamps.
InitMass ==
  /\ vocab_size = no_timestamps_id + 3
  /\ prompts \in {<<<<sot_id>>>>, <<<<sot_id, text_id>>>>}
  /\ options \in MassOptions
  /\ gen = GenIdle
  /\ features_batch = 0
  /\ det = DetIdle
  /\ dec = DecIdle
  /\ svc = SvcIdle
  /\ py = PyIdle
  /\ pool = PoolIdle

NextMass == DecodeBegin \/ DecodeForced \/ DecodeSample

SpecMass == InitMass /\ [][NextMass]_vars

(* ------------- the decoded request with the no-speech capture --------- *)

\* The prompts of the rows whose no-speech probability is asked for: sot
\* alone, sot then a forced text token, sot after a prefilled text token,
\* sot then a task token.
CapturePrompts ==
  {<<sot_id>>, <<sot_id, text_id>>, <<text_id, sot_id>>, <<sot_id, no_speech_id>>}

\* The options of such a request: max_length 8 leaves at most four steps.
CaptureOptions ==
  {WithOptions(FixedOptions, o) :
     o \in [return_no_speech_prob : BOOLEAN,
            max_initial_timestamp_index : {1},
            rows_per_item : 1..MaxBeam,
            max_length : {8}]}

InitCapture ==
  /\ vocab_size = VocabSize
  /\ prompts \in {<<p>> : p \in CapturePrompts}
  /\ options \in CaptureOptions
  /\ gen = GenIdle
  /\ features_batch = 0
  /\ det = DetIdle
  /\ dec = DecIdle
  /\ svc = SvcIdle
  /\ py = PyIdle
  /\ pool = PoolIdle

NextCapture == DecodeBegin \/ DecodeForced \/ DecodeSample

SpecCapture == InitCapture /\ [][NextCapture]_vars

(* ------------------- requests on the service's replicas ---------------- *)

initial_state_kept(left, fresh) == IF left # 0 THEN left ELSE fresh

\* "layers::DecoderState state = _decoder->initial_state()": the state of
\* a request is a new object, a local of the call; left is the state the
\* request before on the replica dropped, fresh an object never used.
initial_state(left, fresh) == fresh

\* The worker of replica r.
Worker(r) == pool.replicas[r]

\* The states after request id read or wrote state sid.
StateUsed(states, sid, id) ==
  [states EXCEPT ![sid].users = states[sid].users \cup {id}]

\* Whisper::generate or Whisper::detect_language posts a job; valid tells
\* whether the replica's function gets past its checks (check_prompts and
\* the empty batch for generate, _is_multilingual for detect_language).
PoolPost ==
  /\ pool.posted < MaxRequests
  /\ \E kind \in {"generate", "detect_language"}, valid \in BOOLEAN :
       pool' = [pool EXCEPT
                  !.posted = pool.posted + 1,
                  !.queue = Append(pool.queue,
                                   [id |-> pool.posted + 1, kind |-> kind,
                                    valid |-> valid])]
  /\ UNCHANGED <<vocab_size, genVars, detVars, dec, svc, py>>

\* An idle worker takes the oldest job and enters the replica's function.
PoolTake(r) ==
  /\ Worker(r).pc = "idle"
  /\ pool.queue # <<>>
  /\ pool' = [pool EXCEPT
                !.queue = Tail(pool.queue),
                !.replicas[r].request = Head(pool.queue),
                !.replicas[r].pc = "entered"]
  /\ UNCHANGED <<vocab_size, genVars, detVars, dec, svc, py>>

\* The function returns or throws before it declares its state.
PoolReject(r) ==
  /\ Worker(r).pc = "entered"
  /\ ~Worker(r).request.valid
  /\ pool' = [pool EXCEPT
                !.replicas[r].request = NoRequest,
                !.replicas[r].pc = "idle"]
  /\ UNCHANGED <<vocab_size, genVars, detVars, dec, svc, py>>

\* initial_state() and state.emplace("memory", encode(features)).
PoolBuildState(r) ==
  /\ Worker(r).pc = "entered"
  /\ Worker(r).request.valid
  /\ LET sid == initial_state(Worker(r).left, Len(pool.states) + 1)
         built == IF sid > Len(pool.states)
                    THEN Append(pool.states,
                                [created_by |-> Worker(r).request.id,
                                 alive |-> TRUE, users |-> {}])
                    ELSE pool.states
     IN pool' = [pool EXCEPT
                   !.states = StateUsed(built, sid, Worker(r).request.id),
                   !.replicas[r].state = sid,
                   !.replicas[r].pc = "built"]
  /\ UNCHANGED <<vocab_size, genVars, detVars, dec, svc, py>>

\* The decoder runs on the request's state: forward_prompt then decode for
\* generate, the one decoder step for detect_language.
PoolUseState(r) ==
  /\ Worker(r).pc \in {"built", "prefilled"}
  /\ pool' = [pool EXCEPT
                !.states = StateUsed(pool.states, Worker(r).state,
                                     Worker(r).request.id),
                !.replicas[r].pc =
                   IF Worker(r).request.kind = "generate" /\ Worker(r).pc = "built"
                     THEN "prefilled" ELSE "decoded"]
  /\ UNCHANGED <<vocab_size, genVars, detVars, dec, svc, py>>

\* The function returns: its local state is destroyed.
PoolReturn(r) ==
  /\ Worker(r).pc = "decoded"
  /\ pool' = [pool EXCEPT
                !.states[Worker(r).state].alive = FALSE,
                !.replicas[r] = [request |-> NoRequest, pc |-> "idle",
                                 state |-> 0, left |-> Worker(r).state]]
  /\ UNCHANGED <<vocab_size, genVars, detVars, dec, svc, py>>

InitPool ==
  /\ vocab_size = VocabSize
  /\ prompts = <<>>
  /\ options = NoOptions
  /\ gen = GenIdle
  /\ features_batch = 0
  /\ det = DetIdle
  /\ dec = DecIdle
  /\ svc = SvcIdle
  /\ py = PyIdle
  /\ pool = PoolIdle

NextPool ==
  \/ PoolPost
  \/ \E r \in 1..MaxReplicas :
       \/ PoolTake(r)
       \/ PoolReject(r)
       \/ PoolBuildState(r)
       \/ PoolUseState(r)
       \/ PoolReturn(r)

SpecPool == InitPool /\ [][NextPool]_vars

(* ======================= claims on generate ============================ *)

ContainsSot(prompt) == \E k \in 1..Len(prompt) : prompt[k] = sot_id

GenFinished == gen.status # "idle"

\* C1: for every non-empty batch, if at least one prompt, at any position
\* of the batch and possibly empty, does not contain sot_id, generate fails
\* with an invalid-argument error.
C1_MissingSotIsInvalidArgument ==
  (GenFinished /\ prompts # <<>>
     /\ \E i \in 1..Len(prompts) : ~ContainsSot(prompts[i]))
  => gen.status = "invalid_argument"

\* C1 witness: a rejected batch whose first prompt holds sot and whose
\* second prompt is empty.
C1_Witness ==
  /\ gen.status = "invalid_argument"
  /\ Len(prompts) = 2
  /\ ContainsSot(prompts[1])
  /\ prompts[2] = <<>>

\* The (sot_index, prompt_length) pair of one prompt.
RowPair(prompt) == <<get_sot_index(prompt).value, get_prompt_length(prompt).value>>

AllContainSot == \A i \in 1..Len(prompts) : ContainsSot(prompts[i])

RowsDisagree ==
  \E i, j \in 1..Len(prompts) : RowPair(prompts[i]) # RowPair(prompts[j])

\* C2: when every prompt holds sot_id, generate fails with invalid-argument
\* whenever two rows differ in sot_index or in prompt_length, and the batch
\* is accepted whenever all rows share the pair, whatever text follows.
C2_UniformPairsDecideValidation ==
  (GenFinished /\ prompts # <<>> /\ AllContainSot)
  => /\ RowsDisagree => gen.status = "invalid_argument"
     /\ ~RowsDisagree =>
          /\ gen.status = "returned"
          /\ <<gen.sot_index, gen.prompt_length>> = RowPair(prompts[1])

\* C2 witness: a rejected batch whose rows share sot_index and differ in
\* prompt_length only.
C2_Witness ==
  /\ gen.status = "invalid_argument"
  /\ Len(prompts) = 2
  /\ AllContainSot
  /\ RowPair(prompts[1])[1] = RowPair(prompts[2])[1]
  /\ RowPair(prompts[1])[2] # RowPair(prompts[2])[2]

GenAccepted == gen.status = "returned" /\ prompts # <<>>

\* C6: when return_no_speech_prob is set, the no_speech_prob of row i is
\* gathered at no_speech_id from the logits of row i at the position whose
\* input token is the row's SOT: at decoding step 0 (input start_tokens[i][0])
\* when SOT is the last prompt token, at column sot_index of the prefill,
\* inside the prefilled prefix, when it is not.
C6_NoSpeechProbReadAtSot ==
  (GenAccepted /\ options.return_no_speech_prob)
  => /\ Len(gen.results) = Len(prompts)
     /\ \A i \in 1..Len(prompts) :
          LET prob == gen.results[i].no_speech_prob
          IN /\ prob.id = no_speech_id
             /\ prob.batch = i - 1
             /\ prob.pos = gen.sot_index
             /\ At(prompts[i], prob.pos) = sot_id
             /\ gen.sot_is_start_token
                  => /\ prob.pos = gen.start_step
                     /\ At(gen.start_tokens[i], 0) = sot_id
             /\ ~gen.sot_is_start_token
                  => /\ prob.pos < Len(gen.prompt_tokens[i])
                     /\ At(gen.prompt_tokens[i], prob.pos) = sot_id

\* C6 witness: a prefilled batch whose SOT is the last prompt token (a
\* context token before it), captured at decoding step 0.
C6_Witness ==
  /\ GenAccepted
  /\ options.return_no_speech_prob
  /\ gen.sot_is_start_token
  /\ gen.prompt_length > 1
  /\ Len(prompts) = 2

\* C7: an accepted batch of B prompts gives B results, result i built from
\* the decoding result of prompt i, its no_speech_prob (when asked for) the
\* one captured for batch row i.
C7_BatchOrderPreserved ==
  GenAccepted
  => /\ Len(gen.results) = Len(prompts)
     /\ \A i \in 1..Len(gen.results) :
          /\ gen.results[i].decoded.batch = i - 1
          /\ gen.results[i].decoded.start_tokens = gen.start_tokens[i]
          /\ (IF gen.prompt_length = 1 THEN <<>> ELSE gen.prompt_tokens[i])
               \o gen.start_tokens[i] = prompts[i]
          /\ options.return_no_speech_prob
               => gen.results[i].no_speech_prob.batch = i - 1

\* C7 witness: two rows, two logits rows per batch item, the deferred
\* capture in use.
C7_Witness ==
  /\ GenAccepted
  /\ Len(gen.results) = 2
  /\ options.rows_per_item = 2
  /\ options.return_no_speech_prob
  /\ gen.sot_is_start_token

\* C13: generate called with an empty prompt list returns an empty result
\* list without invoking the encoder, the decoder or the beam decoder,
\* whatever the options are.
C13_EmptyPromptsReturnEmpty ==
  (GenFinished /\ prompts = <<>>)
  => /\ gen.status = "returned"
     /\ gen.results = <<>>
     /\ gen.calls = <<>>

\* C13 witness: the empty request, returned, with the no-speech probability
\* and two logits rows per item asked for.
C13_Witness ==
  /\ gen.status = "returned"
  /\ prompts = <<>>
  /\ options.return_no_speech_prob
  /\ options.rows_per_item = 2

\* C14: when generate fails with invalid-argument, no call to the encoder,
\* to initial_state, to update_output_layer, to forward_prompt or to the
\* beam decoder has happened in that request.
C14_RejectedBeforeAnyCall ==
  gen.status = "invalid_argument"
  => /\ gen.calls = <<>>
     /\ gen.decoding_options = <<>>
     /\ gen.results = <<>>

\* C14 witness: a batch rejected at its second row, after a first row that
\* passes the checks alone.
C14_Witness ==
  /\ gen.status = "invalid_argument"
  /\ Len(prompts) = 2
  /\ check_prompts(<<prompts[1]>>).thrown = "none"
  /\ check_prompts(<<prompts[2]>>).thrown = "none"

RulesInstalled ==
  \E k \in 1..Len(gen.processors) : gen.processors[k].kind = "ApplyTimestampRules"

\* C18: for every accepted batch, TimestampRules is among the logits
\* processors if and only if the token at index prompt_length - 1 of the
\* first prompt differs from no_timestamps_id; [sot, lang, task,
\* no_timestamps] installs nothing and [sot, lang, task] installs the rules.
C18_RulesFollowFirstPrompt ==
  GenAccepted
  => /\ RulesInstalled <=> At(prompts[1], gen.prompt_length - 1) # no_timestamps_id
     /\ prompts = <<<<sot_id, no_speech_id, no_speech_id, no_timestamps_id>>>>
          => ~RulesInstalled
     /\ prompts = <<<<sot_id, no_speech_id, no_speech_id>>>> => RulesInstalled

\* C18 witness: the rules installed for a prompt that ends with
\* no_timestamps_id, after the text that ends its task tokens.
C18_Witness ==
  /\ GenAccepted
  /\ RulesInstalled
  /\ At(prompts[1], Len(prompts[1]) - 1) = no_timestamps_id
  /\ gen.prompt_length < Len(prompts[1])

\* C19: for every batch that passes the validation and for every row i, the
\* timestamp rules govern the generation exactly when row i's own token at
\* index prompt_length - 1 is not no_timestamps_id: all rows agree with row
\* 0 on it.
C19_EveryRowDecidesItsRules ==
  GenAccepted
  => \A i \in 1..Len(prompts) :
       RulesInstalled <=> At(prompts[i], gen.prompt_length - 1) # no_timestamps_id

(* ==================== claims on prompt analysis ======================== *)

\* The token at index i lies outside [sot_id, no_timestamps_id].
OutsideTaskRange(prompt, i) ==
  At(prompt, i) < sot_id \/ At(prompt, i) > no_timestamps_id

\* C17: for every prompt containing sot_id, sot_index is the position of
\* the first occurrence of sot_id, and prompt_length is the smallest index
\* >= sot_index whose token lies outside [sot_id, no_timestamps_id], or the
\* prompt's length when there is none; the tokens before sot_index do not
\* influence prompt_length.
C17_PromptLengthScansFromSot ==
  (GenFinished /\ Len(prompts) = 1 /\ ContainsSot(prompts[1]))
  => LET prompt == prompts[1]
     IN /\ gen.status = "returned"
        /\ At(prompt, gen.sot_index) = sot_id
        /\ \A i \in 0..(gen.sot_index - 1) : At(prompt, i) # sot_id
        /\ gen.prompt_length >= gen.sot_index
        /\ gen.prompt_length <= Len(prompt)
        /\ \A i \in gen.sot_index..(gen.prompt_length - 1) :
             ~OutsideTaskRange(prompt, i)
        /\ gen.prompt_length < Len(prompt)
             => OutsideTaskRange(prompt, gen.prompt_length)
        /\ gen.prompt_length - gen.sot_index
             = get_prompt_length(SubSeq(prompt, gen.sot_index + 1, Len(prompt))).value

\* C17 witness: a task token before sot, and a timestamp that ends the
\* task tokens after sot.
C17_Witness ==
  /\ gen.status = "returned"
  /\ Len(prompts) = 1
  /\ gen.sot_index = 1
  /\ At(prompts[1], 0) = no_timestamps_id
  /\ gen.prompt_length = gen.sot_index + 2
  /\ At(prompts[1], gen.prompt_length) = no_timestamps_id + 1

(* ==================== claims on the results ============================ *)

\* The request reached the assembly of its results.
GenAssembled == gen.status \in {"returned", "crashed"} /\ prompts # <<>>

\* C15: for every accepted request with return_scores disabled, the
\* assembly of the results succeeds and each result's scores and
\* token_scores are empty; with return_scores enabled, each result carries
\* the per-token scores of every returned hypothesis.
C15_ScoresFollowReturnScores ==
  GenAssembled
  => /\ gen.status = "returned"
     /\ Len(gen.results) = Len(prompts)
     /\ \A i \in 1..Len(gen.results) :
          IF options.return_scores
            THEN /\ gen.results[i].scores =
                      [h \in 1..options.num_hypotheses |-> HypothesisOf(i - 1, h - 1)]
                 /\ gen.results[i].token_scores =
                      [h \in 1..options.num_hypotheses |-> HypothesisOf(i - 1, h - 1)]
            ELSE /\ gen.results[i].scores = <<>>
                 /\ gen.results[i].token_scores = <<>>

\* C16: reading the attention property of a result produced with
\* return_attention disabled yields an empty value and never indexes into
\* a missing element.
C16_AttentionReadIsSafe ==
  (py.state # "idle" /\ ~options.return_attention)
  => /\ py.state = "value"
     /\ py.of = <<>>

(* =================== claims on detect_language ========================= *)

\* C9: detect_language on a model whose vocabulary size is not 51865 fails
\* with a runtime error before the encoder or the decoder is invoked; on a
\* multilingual model it never raises that error.
C9_DetectLanguageNeedsMultilingual ==
  det.status # "idle"
  => /\ vocab_size # MultilingualVocabSize
          => (det.status = "runtime_error" /\ det.calls = <<>>)
     /\ vocab_size = MultilingualVocabSize => det.status # "runtime_error"

\* C9 witness: the call refused on a vocabulary one token larger than the
\* multilingual one, with features to encode.
C9_Witness ==
  /\ det.status = "runtime_error"
  /\ vocab_size = MultilingualVocabSize + 1
  /\ features_batch > 0

\* C10: the list returned for every batch row has its probabilities in
\* non-increasing order and is a permutation of lang_ids, each language
\* paired with the probability computed for it in that row; the lists come
\* in the order of the batch.
C10_LanguagesSortedPerRow ==
  det.status = "returned"
  => /\ Len(det.results) = features_batch
     /\ \A i \in 1..Len(det.results) :
          /\ Len(det.results[i]) = Len(lang_ids)
          /\ \A k \in 1..(Len(lang_ids) - 1) :
               det.results[i][k][2] >= det.results[i][k + 1][2]
          /\ \E perm \in Permutations(1..Len(lang_ids)) :
               \A k \in 1..Len(lang_ids) :
                 det.results[i][k] =
                   <<to_token(lang_ids[perm[k]]), det.lang_probs[i][perm[k]]>>

\* C10 witness: two rows with different probabilities, the first of which
\* is not yet in order before the sort.
C10_Witness ==
  /\ det.status = "returned"
  /\ features_batch = 2
  /\ det.lang_probs[1] # det.lang_probs[2]
  /\ det.lang_probs[1][1] < det.lang_probs[1][2]
  /\ det.results[1] # det.results[2]

(* =================== claims on ApplyTimestampRules ===================== *)

IsTimestampId(id) == id >= dec.rules.timestamp_begin_id

\* The ids left enabled at the step that produced the last token.
EnabledAtLastStep == IdRange(0, vocab_size - 1) \ dec.disabled

\* The rules ran at step dec.step - 1 and the decoder sampled a token there.
SampledUnderRules ==
  dec.phase # "idle" /\ dec.installed /\ dec.step > dec.sample_begin

\* C3: with TimestampRules installed, the only ids left enabled at
\* step == sample_begin lie in [timestamp_begin_id, max_initial_timestamp_id],
\* so the first generated token is a timestamp not above
\* max_initial_timestamp_id.
C3_FirstTokenIsBoundedTimestamp ==
  (SampledUnderRules /\ dec.step = dec.sample_begin + 1)
  => /\ EnabledAtLastStep \subseteq
          IdRange(dec.rules.timestamp_begin_id, dec.rules.max_initial_timestamp_id)
     /\ At(dec.sequences, dec.sample_begin) >= dec.rules.timestamp_begin_id
     /\ At(dec.sequences, dec.sample_begin) <= dec.rules.max_initial_timestamp_id
     /\ dec.rules.timestamp_begin_id = no_timestamps_id + 1
     /\ dec.rules.max_initial_timestamp_id =
          dec.rules.timestamp_begin_id + options.max_initial_timestamp_index

\* C3 witness: after a forced prefix token, the first generated token is
\* the largest timestamp allowed, below timestamp_end_id.
C3_Witness ==
  /\ SampledUnderRules
  /\ dec.step = dec.sample_begin + 1
  /\ dec.sample_begin = 1
  /\ At(dec.sequences, dec.sample_begin) = dec.rules.max_initial_timestamp_id
  /\ dec.rules.max_initial_timestamp_id < dec.rules.timestamp_end_id

\* The positions (0-based) of the generated timestamps before position p.
TimestampPositionsBefore(p) ==
  {t \in dec.sample_begin..(p - 1) : IsTimestampId(At(dec.sequences, t))}

Maximum(S) == CHOOSE x \in S : \A y \in S : x >= y

\* C4: the timestamps generated from sample_begin on never decrease: at
\* each step > sample_begin every timestamp id below the most recent
\* generated timestamp is disabled.
C4_TimestampsNeverDecrease ==
  SampledUnderRules
  => /\ \A a, b \in dec.sample_begin..(dec.step - 1) :
          (a < b /\ IsTimestampId(At(dec.sequences, a))
                 /\ IsTimestampId(At(dec.sequences, b)))
          => At(dec.sequences, a) <= At(dec.sequences, b)
     /\ (dec.step - 1 > dec.sample_begin
         /\ TimestampPositionsBefore(dec.step - 1) # {})
        => IdRange(dec.rules.timestamp_begin_id,
                   At(dec.sequences, Maximum(TimestampPositionsBefore(dec.step - 1))) - 1)
             \subseteq dec.disabled

\* C4 witness: a timestamp above timestamp_begin_id, text, and then a
\* timestamp again, with smaller timestamps in the vocabulary.
C4_Witness ==
  /\ SampledUnderRules
  /\ dec.step = dec.sample_begin + 3
  /\ At(dec.sequences, dec.sample_begin) > dec.rules.timestamp_begin_id
  /\ ~IsTimestampId(At(dec.sequences, dec.sample_begin + 1))
  /\ IsTimestampId(At(dec.sequences, dec.sample_begin + 2))

\* The last step ran after a timestamp that closes a pair: the token before
\* it is a timestamp too, or it is the first generated token.
AfterClosedPair ==
  /\ SampledUnderRules
  /\ dec.step - 1 > dec.sample_begin
  /\ IsTimestampId(At(dec.sequences, dec.step - 2))
  /\ \/ dec.step - 2 = dec.sample_begin
     \/ IsTimestampId(At(dec.sequences, dec.step - 3))

\* C5: after a timestamp that follows a timestamp, or that is the first
\* generated token, every timestamp id is disabled for the next step; no
\* generated sequence holds three timestamps in a row, and the first
\* generated timestamp is never directly followed by a timestamp.
C5_TimestampPairsClose ==
  /\ AfterClosedPair
       => /\ IdRange(dec.rules.timestamp_begin_id, dec.rules.timestamp_end_id)
               \subseteq dec.disabled
          /\ ~IsTimestampId(At(dec.sequences, dec.step - 1))
  /\ SampledUnderRules
       => /\ \A t \in dec.sample_begin..(dec.step - 3) :
               ~(/\ IsTimestampId(At(dec.sequences, t))
                 /\ IsTimestampId(At(dec.sequences, t + 1))
                 /\ IsTimestampId(At(dec.sequences, t + 2)))
          /\ dec.step >= dec.sample_begin + 2
               => ~(/\ IsTimestampId(At(dec.sequences, dec.sample_begin))
                    /\ IsTimestampId(At(dec.sequences, dec.sample_begin + 1)))

\* C5 witness: a timestamp, text, two timestamps in a row, and then a token
\* sampled with the timestamps disabled.
C5_Witness ==
  /\ AfterClosedPair
  /\ dec.step = dec.sample_begin + 5
  /\ IsTimestampId(At(dec.sequences, dec.step - 3))
  /\ ~IsTimestampId(At(dec.sequences, dec.step - 4))

\* The last step ran inside an open pair: the token before it is a
\* timestamp and the generated token before that one is not.
AfterOpenPair ==
  /\ SampledUnderRules
  /\ dec.step - 3 >= dec.sample_begin
  /\ IsTimestampId(At(dec.sequences, dec.step - 2))
  /\ ~IsTimestampId(At(dec.sequences, dec.step - 3))

C11_CapBoundsEveryHypothesis ==
  dec.phase # "idle"
  => /\ gen.start_step =
          (IF gen.prompt_length = 1 THEN 0 ELSE gen.prompt_length - 1)
     /\ gen.decoding_options.max_length <= options.max_length \div 2
     /\ gen.decoding_options.max_length <= options.max_length - gen.start_step
     /\ gen.decoding_options.max_length
          \in {options.max_length \div 2, options.max_length - gen.start_step}
     /\ Len(dec.sequences) <= gen.decoding_options.max_length
     /\ gen.start_step + Len(dec.sequences) <= options.max_length

(* ===================== claims on suppress_tokens ======================= *)

Entries(seq) == {seq[k] : k \in 1..Len(seq)}

\* The ids the decoder sampled: the tokens of the row from sample_begin on.
SampledTokens ==
  {At(dec.sequences, t) : t \in dec.sample_begin..(dec.step - 1)}

\* C12 as stated: as a set, disable_ids equal the positive ids listed in
\* suppress_tokens, together with the config's suppress_ids if and only if
\* -1 occurs in suppress_tokens.
C12_PositiveIdsSuppressed ==
  dec.phase # "idle"
  => Entries(gen.decoding_options.disable_ids)
       = {id \in Entries(options.suppress_tokens) : id > 0}
         \cup (IF (0 - 1) \in Entries(options.suppress_tokens)
                 THEN Entries(suppress_ids) ELSE {})

\* C12 amended: as a set, disable_ids equal the ids >= 0 listed in
\* suppress_tokens (id 0 included), together with the config's suppress_ids
\* if and only if -1 occurs in suppress_tokens; negative ids other than -1
\* contribute nothing, and no id of disable_ids is sampled at any step.
C12_NonNegativeIdsSuppressed ==
  dec.phase # "idle"
  => /\ Entries(gen.decoding_options.disable_ids)
          = {id \in Entries(options.suppress_tokens) : id >= 0}
            \cup (IF (0 - 1) \in Entries(options.suppress_tokens)
                    THEN Entries(suppress_ids) ELSE {})
     /\ dec.disable_ids = Entries(gen.decoding_options.disable_ids)
     /\ SampledTokens \cap Entries(gen.decoding_options.disable_ids) = {}

\* C12 witness: suppress_tokens lists id 0 and the sentinel, and the decoder
\* has sampled two tokens.
C12_Witness ==
  /\ dec.phase # "idle"
  /\ options.suppress_tokens = <<text_id, 0 - 1>>
  /\ dec.step = dec.sample_begin + 2
  /\ ~dec.installed

(* ====================== claims on the service ========================== *)

JobOver == svc.phase \in {"finished", "crashed"}

\* C8: generate of the service returns one future per batch item, and once
\* the replica has finished the batch every future is completed: future i
\* with the result of batch item i, or every future with the request's
\* error; also when the number of prompts differs from the features' batch
\* dimension and when the prompt list is empty.
C8_EveryFutureCompleted ==
  JobOver
  => /\ Len(svc.futures) = features_batch
     /\ \/ \A i \in 1..Len(svc.futures) :
             /\ svc.futures[i].state = "value"
             /\ svc.futures[i].result[1].decoded.batch = i - 1
        \/ /\ gen.status # "returned"
           /\ \A i \in 1..Len(svc.futures) :
                /\ svc.futures[i].state = "error"
                /\ svc.futures[i].error = gen.status

(* ================= claims on the timestamp mass check ================== *)

\* The step the processors last ran at, and the tokens they were handed.
LastStep == dec.step - 1

RulesRan == dec.phase # "idle" /\ dec.installed /\ dec.step > 0

\* The row at LastStep ends in a timestamp whose predecessor is a generated
\* token that is not a timestamp.
OpensPair ==
  /\ LastStep - 1 > dec.sample_begin
  /\ IsTimestampId(At(dec.sequences, LastStep - 1))
  /\ ~IsTimestampId(At(dec.sequences, LastStep - 2))

LastIsText ==
  LastStep > dec.sample_begin /\ ~IsTimestampId(At(dec.sequences, LastStep - 1))

\* The ids the rules disable at LastStep before the mass check.
DisabledBeforeCheck ==
  {id \in IdRange(0, vocab_size - 1) :
     \/ id = no_timestamps_id
     \/ OpensPair /\ id < eot_id
     \/ /\ IsTimestampId(id)
        /\ \E t \in TimestampPositionsBefore(LastStep) : id < At(dec.sequences, t)}

TimestampMass ==
  MassSum(dec.log_probs, dec.rules.timestamp_begin_id, dec.rules.timestamp_end_id)

LargestTextMass == MassMax(dec.log_probs, 0, dec.rules.timestamp_begin_id - 1)

\* C21: the mass check is applied exactly to the rows with
\* step > sample_begin whose last token is not a timestamp or opens a
\* pair; it reads logits in which the ids disabled so far in the step carry
\* no mass; and for a checked row every id below timestamp_begin_id is
\* disabled exactly when the summed mass of the timestamp ids exceeds the
\* largest mass of an id below timestamp_begin_id.
C21_MassCheckOnOpenRows ==
  RulesRan
  => /\ dec.checked <=> (LastStep > dec.sample_begin /\ (LastIsText \/ OpensPair))
     /\ dec.checked =>
          /\ \A id \in DisabledBeforeCheck : dec.log_probs[id] = 0
          /\ (IdRange(0, dec.rules.timestamp_begin_id - 1) \subseteq dec.disabled)
               <=> (TimestampMass > LargestTextMass)

\* C21 witness: a row that opened a pair was checked on logits in which no
\* timestamp outweighs the largest id below timestamp_begin_id but two of
\* them together do, and every id below timestamp_begin_id was disabled.
C21_Witness ==
  /\ RulesRan
  /\ dec.checked
  /\ OpensPair
  /\ LargestTextMass = 1
  /\ TimestampMass = 2
  /\ IdRange(0, dec.rules.timestamp_begin_id - 1) \subseteq dec.disabled

\* C22: while TimestampRules is installed, no_timestamps_id is disabled at
\* every decoding step, the steps before sample_begin included, and it is
\* never among the generated tokens.
C22_NoTimestampsAlwaysDisabled ==
  RulesRan
  => /\ no_timestamps_id \in dec.disabled
     /\ \A t \in dec.sample_begin..(dec.step - 1) :
          At(dec.sequences, t) # no_timestamps_id

\* C22 witness: the rules ran at a step before sample_begin, inside the
\* forced prefix, and disabled no_timestamps_id there.
C22_Witness ==
  /\ RulesRan
  /\ LastStep < dec.sample_begin
  /\ dec.disabled = {no_timestamps_id}

(* ================= claims on the no-speech capture ===================== *)

DeferredInstalled ==
  \E k \in 1..Len(gen.processors) : gen.processors[k].kind = "GetNoSpeechProbs"

EagerRan ==
  \E k \in 1..Len(gen.calls) : gen.calls[k] = "compute_logits_for_steps"

CaptureRuns == dec.phase # "idle" /\ dec.capturing

C25_CaptureBeforeRules ==
  CaptureRuns
  => /\ gen.processors[1].kind = "GetNoSpeechProbs"
     /\ gen.processors[1].apply_first
     /\ dec.processors[1].kind = "GetNoSpeechProbs"
     /\ \A k \in 2..Len(gen.processors) : ~gen.processors[k].apply_first
     /\ dec.step > 0 =>
          /\ dec.observed[1].logits = dec.logits
          /\ dec.observed[1].disable_tokens = {}
          /\ dec.no_speech_probs
               = <<ProbOf(LogitsRow(0, dec.start_step), no_speech_id)>>

\* C25 witness: TimestampRules is installed behind the processor and has
\* just written its disabled ids into the logits for the mass check, which
\* the processor was handed unmasked.
C25_Witness ==
  /\ CaptureRuns
  /\ dec.installed
  /\ dec.checked
  /\ dec.log_probs # dec.logits
  /\ dec.observed[1].logits = dec.logits

(* ================== claims on the prefill split ======================== *)

ForwardPromptRan ==
  \E k \in 1..Len(gen.calls) : gen.calls[k] = "forward_prompt"

\* C26: the split of an accepted batch loses nothing.  With
\* prompt_length > 1 every row's prefix has prompt_length - 1 tokens, its
\* start tokens are not empty and begin with prompts[i][prompt_length - 1],
\* prefix then start tokens is the prompt, and start_step is the length of
\* the prefix; with prompt_length = 1 nothing is prefilled, the start
\* tokens are the prompts and start_step is 0.
C26_PrefillSplitLossless ==
  GenAccepted
  => IF gen.prompt_length = 1
       THEN /\ ~ForwardPromptRan
            /\ gen.prompt_tokens = <<>>
            /\ gen.start_tokens = prompts
            /\ gen.start_step = 0
       ELSE /\ ForwardPromptRan
            /\ Len(gen.prompt_tokens) = Len(prompts)
            /\ Len(gen.start_tokens) = Len(prompts)
            /\ gen.start_step = gen.prompt_length - 1
            /\ \A i \in 1..Len(prompts) :
                 /\ Len(gen.prompt_tokens[i]) = gen.prompt_length - 1
                 /\ gen.prompt_tokens[i] = SubSeq(prompts[i], 1, gen.prompt_length - 1)
                 /\ gen.start_tokens[i] # <<>>
                 /\ gen.start_tokens[i][1] = prompts[i][gen.prompt_length]
                 /\ gen.start_tokens[i]
                      = SubSeq(prompts[i], gen.prompt_length, Len(prompts[i]))

\* C26 witness: two rows split after one token, with different start
\* tokens.
C26_Witness ==
  /\ GenAccepted
  /\ Len(prompts) = 2
  /\ gen.prompt_length = 2
  /\ gen.start_step = 1
  /\ gen.prompt_tokens[1] = gen.prompt_tokens[2]
  /\ gen.start_tokens[1] # gen.start_tokens[2]

(* ============== claims on what the rules leave enabled ================= *)

\* The ids TimestampRules disables at the step the row is about to take, on
\* the given logits.
DisabledAtNextStep(logits) ==
  ApplyTimestampRules_apply(dec.rules, dec.step, dec.sample_begin,
                            dec.sequences, logits, {}).disabled

\* C27: TimestampRules never disables every id of a row: at every step of
\* every history the rules allow, whatever the logits, an id in
\* [0, timestamp_end_id] is left enabled.
C27_RulesLeaveAnIdEnabled ==
  (dec.phase = "running" /\ dec.installed)
  => \A logits \in StepLogits(options, vocab_size) :
       IdRange(0, dec.rules.timestamp_end_id) \ DisabledAtNextStep(logits) # {}

\* C27 witness: after the text that followed a first timestamp equal to
\* timestamp_end_id, the mass check and the monotonic rule together leave
\* timestamp_end_id alone enabled.
C27_Witness ==
  /\ dec.phase = "running"
  /\ dec.installed
  /\ dec.step = dec.sample_begin + 2
  /\ At(dec.sequences, dec.sample_begin) = dec.rules.timestamp_end_id
  /\ \E logits \in StepLogits(options, vocab_size) :
       IdRange(0, dec.rules.timestamp_end_id) \ DisabledAtNextStep(logits)
         = {dec.rules.timestamp_end_id}

(* ================ claims on the prompt's positions ===================== *)

\* C28: for every prompt containing sot_id, sot_index + 1 <= prompt_length
\* <= the prompt's length; so in every accepted batch prompt_length >= 1
\* and prompt_length - 1, the index used for sot_is_start_token, for the
\* prefill split and for the test on the timestamp rules, is a position of
\* every prompt of the batch.
C28_PromptLengthIndexesEveryRow ==
  /\ \A i \in 1..Len(prompts) :
       ContainsSot(prompts[i])
       => /\ get_sot_index(prompts[i]).value + 1 <= get_prompt_length(prompts[i]).value
          /\ get_prompt_length(prompts[i]).value <= Len(prompts[i])
  /\ GenAccepted
     => /\ gen.sot_index + 1 <= gen.prompt_length
        /\ gen.prompt_length >= 1
        /\ \A i \in 1..Len(prompts) :
             /\ gen.prompt_length - 1 \in 0..(Len(prompts[i]) - 1)
             /\ At(prompts[i], gen.prompt_length - 1) # OutOfRange
             /\ \A k \in 1..Len(gen.start_tokens[i]) :
                  gen.start_tokens[i][k] # OutOfRange
        /\ LastTaskToken(prompts, gen.prompt_length) # OutOfRange

\* C28 witness: an accepted batch of two rows whose sot is the last token,
\* after a text token: prompt_length is sot_index + 1 and the length of
\* both rows.
C28_Witness ==
  /\ GenAccepted
  /\ Len(prompts) = 2
  /\ gen.sot_index = 1
  /\ gen.prompt_length = gen.sot_index + 1
  /\ \A i \in 1..2 : Len(prompts[i]) = gen.prompt_length

(* =================== claims on the decoder state ======================= *)

\* C29: under any interleaving of generate and detect_language requests on
\* the replicas, a request uses a state built inside that request and
\* dropped when it returns: no state is read or written by two requests,
\* no two workers hold the same state, and a request entering a replica
\* sees no state of the request before.
C29_StateOwnedByOneRequest ==
  /\ \A sid \in 1..Len(pool.states) :
       /\ pool.states[sid].users = {pool.states[sid].created_by}
       /\ pool.states[sid].alive
            <=> \E r \in 1..MaxReplicas :
                  /\ Worker(r).state = sid
                  /\ Worker(r).request.id = pool.states[sid].created_by
  /\ \A r \in 1..MaxReplicas :
       /\ Worker(r).pc \in {"idle", "entered"} => Worker(r).state = 0
       /\ Worker(r).pc \in {"built", "prefilled", "decoded"}
            => /\ Worker(r).state \in 1..Len(pool.states)
               /\ pool.states[Worker(r).state].alive
               /\ Worker(r).state # Worker(r).left
  /\ \A r, q \in 1..MaxReplicas :
       (r # q /\ Worker(r).state # 0) => Worker(r).state # Worker(q).state

\* C29 witness: a detect_language request has built its state on a replica
\* where a generate request ran before, while a generate request decodes
\* on another replica.
C29_Witness ==
  \E r, q \in 1..MaxReplicas :
    /\ r # q
    /\ Worker(r).request.kind = "detect_language"
    /\ Worker(r).pc = "built"
    /\ Worker(r).left # 0
    /\ Worker(q).request.kind = "generate"
    /\ Worker(q).pc = "prefilled"

====
